---- MODULE Spec2Model ----
(***************************************************************************)
(* Model of purepure.go: the SCN segment scanner (splitFile), the          *)
(* reassembler (combineSegments), the header / offset-table patcher        *)
(* (fixFileSizeHeader), the hex-string byte patchers (removeBubbles,       *)
(* fixRouteChange), the word wrapper (wrap) and the patch pipeline         *)
(* (patch).                                                                *)
(*                                                                         *)
(* Bytes are integers 0..255 and buffers are sequences of bytes.  Go's     *)
(* 0-based half-open slices s[a:b] are written Slice(s, a, b).  A uint32   *)
(* is kept as its four little-endian bytes, so that arithmetic modulo      *)
(* 2^32 is exact.                                                          *)
(***************************************************************************)
EXTENDS Integers, Sequences, FiniteSets, TLC

VARIABLES
    pc,             \* position of the running function / pipeline
    data,           \* splitFile's argument; patch's current file buffer
    remaining,      \* splitFile: the unscanned suffix
    out,            \* splitFile: the segments emitted so far
    indexMap,       \* splitFile: per-kind running counter
    log,            \* the messages logged so far (warnings, fatal errors)
    base,           \* patch: the file's base name
    fileSizeOffset, \* patch: len(file) - total_size, a uint32
    split,          \* patch: the segment list of the file
    outData,        \* patch: the reassembled output buffer
    orig,           \* patch: the file as read from disk
    tlLines,        \* patch: the translation records read from the CSV
    lineMap,        \* patch: key -> replacement bytes
    wordWrapLength, \* the -wordwrap flag
    written         \* patch: the files written to the output folder

vars ==
    <<pc, data, remaining, out, indexMap, log, base, fileSizeOffset, split, outData,
      orig, tlLines, lineMap, wordWrapLength, written>>

scanVars == <<data, remaining, out, indexMap>>

fileVars == <<base, fileSizeOffset, split, outData, orig>>

patchVars == <<tlLines, lineMap, wordWrapLength, written>>

\* The values of the pipeline's variables while a single function is run.
NoPatch ==
    /\ tlLines = <<>>
    /\ lineMap = <<>>
    /\ wordWrapLength = 0
    /\ written = <<>>

(***************************************************************************)
(* Byte-slice primitives (package bytes).                                  *)
(***************************************************************************)

\* Go's s[a:b].
Slice(s, a, b) == SubSeq(s, a + 1, b)

\* Go's s[a:].
SliceFrom(s, a) == SubSeq(s, a + 1, Len(s))

\* sep occurs in s at 0-based offset i.
HasAt(s, sep, i) ==
    /\ i >= 0
    /\ i + Len(sep) <= Len(s)
    /\ SubSeq(s, i + 1, i + Len(sep)) = sep

\* bytes.Index: the offset of the first occurrence of sep in s, or -1.
Index(s, sep) ==
    LET cand == {i \in 0..(Len(s) - Len(sep)) : HasAt(s, sep, i)}
    IN  IF cand = {} THEN -1
        ELSE CHOOSE i \in cand : \A j \in cand : i <= j

\* bytes.IndexByte: the offset of the first byte c in s, or -1.
IndexByte(s, c) == Index(s, <<c>>)

\* binary.LittleEndian.PutUint32 of a value 0 <= n < 2^31.
LE32(n) ==
    << n % 256, (n \div 256) % 256, (n \div 65536) % 256, (n \div 16777216) % 256 >>

(***************************************************************************)
(* Byte marker vocabulary.                                                 *)
(***************************************************************************)
TextSegment == "text"
ChoiceSegment == "choice"
FileTagSegment == "filetag"
Structural == ""

lineStart(i) == <<243>> \o LE32(i)

choiceStart == <<240, 28, 241>>

fileTagStart == <<240, 26, 241>>

\* &ScnSegment{lineType, lineIndex, data}; a structural segment has the zero
\* values "" and 0.
ScnSegment(t, i, d) == [lineType |-> t, lineIndex |-> i, data |-> d]

(***************************************************************************)
(* combineSegments.                                                        *)
(***************************************************************************)
RECURSIVE combineSegments(_)
combineSegments(segs) ==
    IF segs = <<>> THEN <<>>
    ELSE segs[1].data \o combineSegments(Tail(segs))

(***************************************************************************)
(* splitFile, one loop iteration at a time.                                *)
(***************************************************************************)

\* A search that keeps the Text marker whenever it occurs.
NextMarkerTextFirst(rem, idx) ==
    LET tls == lineStart(idx[TextSegment])
        tb  == Index(rem, tls)
        cb  == Index(rem, choiceStart)
        fb  == Index(rem, fileTagStart)
    IN  IF tb # -1
        THEN [ls |-> tls, begin |-> tb, lineType |-> TextSegment]
        ELSE IF cb # -1 /\ (fb = -1 \/ cb < fb)
        THEN [ls |-> choiceStart, begin |-> cb, lineType |-> ChoiceSegment]
        ELSE IF fb # -1
        THEN [ls |-> fileTagStart, begin |-> fb, lineType |-> FileTagSegment]
        ELSE [ls |-> tls, begin |-> -1, lineType |-> TextSegment]

\* Lines 147-159: the marker chosen by the three searches.
NextMarker(rem, idx) ==
    LET tls == lineStart(idx[TextSegment])
        tb  == Index(rem, tls)
        cb  == Index(rem, choiceStart)
        m1  == IF cb # -1 /\ (tb = -1 \/ cb < tb)
               THEN [ls |-> choiceStart, begin |-> cb, lineType |-> ChoiceSegment]
               ELSE [ls |-> tls, begin |-> tb, lineType |-> TextSegment]
        fb  == Index(rem, fileTagStart)
    IN  IF fb # -1 /\ (m1.begin = -1 \/ fb < m1.begin)
        THEN [ls |-> fileTagStart, begin |-> fb, lineType |-> FileTagSegment]
        ELSE m1

\* A scanner that takes the end of the buffer for a missing terminator.
TermLengthTruncating(rem, begin) ==
    IF IndexByte(SliceFrom(rem, begin), 0) = -1
    THEN Len(rem) - begin
    ELSE IndexByte(SliceFrom(rem, begin), 0)

\* A scanner that takes the terminator into the payload.
TermLengthInclusive(rem, begin) ==
    IF IndexByte(SliceFrom(rem, begin), 0) = -1
    THEN -1
    ELSE IndexByte(SliceFrom(rem, begin), 0) + 1

\* Line 167: the payload length, the offset of the terminator after begin.
TermLength(rem, begin) == IndexByte(SliceFrom(rem, begin), 0)

\* A scanner that drops the terminator from the remainder.
AdvancePastTerminator(rem, begin, length) == SliceFrom(rem, begin + length + 1)

\* A scanner that moves on by one byte.
AdvanceOneByte(rem, begin, length) == SliceFrom(rem, 1)

\* Line 173: the new remaining.
Advance(rem, begin, length) == SliceFrom(rem, begin + length)

\* A continuation rule that forgets to test for the Text kind.
BumpIndexAnyKind(idx, lineType, rem, ls) ==
    IF ~(Index(rem, ls) # -1)
    THEN [idx EXCEPT ![lineType] = @ + 1]
    ELSE idx

\* A scanner without the continuation rule.
BumpIndexAlways(idx, lineType, rem, ls) == [idx EXCEPT ![lineType] = @ + 1]

\* Lines 178-180: the continuation rule.
BumpIndex(idx, lineType, rem, ls) ==
    IF ~(lineType = TextSegment /\ Index(rem, ls) # -1)
    THEN [idx EXCEPT ![lineType] = @ + 1]
    ELSE idx

ZeroIndex == [t \in {TextSegment, ChoiceSegment, FileTagSegment} |-> 0]

\* The scanner's local state on entry (lines 141-145).
ScanStart(d) == [pc |-> "loop", remaining |-> d, out |-> <<>>, indexMap |-> ZeroIndex]

\* Lines 146-181: one iteration of the loop, from the loop head.  pc becomes
\* "check" after the break, "fatal" after log.Fatal, and stays "loop" otherwise.
ScanIter(st) ==
    LET rem    == st.remaining
        m      == NextMarker(rem, st.indexMap)
        begin  == m.begin + Len(m.ls)
        length == TermLength(rem, begin)
        rem2   == Advance(rem, begin, length)
    IN  IF m.begin = -1
        THEN [st EXCEPT !.pc = "check",
                        !.out = Append(@, ScnSegment(Structural, 0, rem))]
        ELSE IF length = -1
        THEN [st EXCEPT !.pc = "fatal"]
        ELSE [pc        |-> "loop",
              remaining |-> rem2,
              out       |-> st.out \o
                            << ScnSegment(Structural, 0, Slice(rem, 0, begin)),
                               ScnSegment(m.lineType, st.indexMap[m.lineType],
                                          Slice(rem, begin, begin + length)) >>,
              indexMap  |-> BumpIndex(st.indexMap, m.lineType, rem2, m.ls)]

RECURSIVE ScanRun(_)
ScanRun(st) == IF st.pc = "loop" THEN ScanRun(ScanIter(st)) ELSE st

NoEnd == "did not find end to line"
MessedUp == "splitFile messed up :("

\* Lines 140-187: the whole function; err is the log.Fatal message, "" on return.
splitFile(d) ==
    LET st == ScanRun(ScanStart(d))
    IN  IF st.pc = "fatal" THEN [err |-> NoEnd, segs |-> <<>>]
        ELSE IF d # combineSegments(st.out) THEN [err |-> MessedUp, segs |-> <<>>]
        ELSE [err |-> "", segs |-> st.out]

(***************************************************************************)
(* Bounded inputs: buffers are concatenations of a few chunks.             *)
(***************************************************************************)
RECURSIVE Concats(_, _)
Concats(C, n) ==
    IF n = 0 THEN {<<>>}
    ELSE LET P == Concats(C, n - 1) IN P \cup {p \o c : p \in P, c \in C}

MaxScanChunks == 4

ScanChunks ==
    { lineStart(0), lineStart(1), choiceStart, fileTagStart,
      <<0>>, <<65>>, <<243>>, <<240>> }

ScanInputs == Concats(ScanChunks, MaxScanChunks)

(***************************************************************************)
(* SpecScan: splitFile run on every bounded buffer.                        *)
(***************************************************************************)
ScanState == [pc |-> pc, remaining |-> remaining, out |-> out, indexMap |-> indexMap]

ScanInit ==
    /\ data \in ScanInputs
    /\ pc = "loop"
    /\ remaining = data
    /\ out = <<>>
    /\ indexMap = ZeroIndex
    /\ log = <<>>
    /\ base = ""
    /\ fileSizeOffset = LE32(0)
    /\ split = <<>>
    /\ outData = <<>>
    /\ orig = <<>>
    /\ NoPatch

SetScan(st) ==
    /\ pc' = st.pc
    /\ remaining' = st.remaining
    /\ out' = st.out
    /\ indexMap' = st.indexMap

\* Lines 161-165: no marker left, the final structural segment and break.
ScanFinal ==
    /\ pc = "loop"
    /\ ScanIter(ScanState).pc = "check"
    /\ SetScan(ScanIter(ScanState))
    /\ UNCHANGED <<data, log, fileVars, patchVars>>

\* Lines 168-170: no terminator, log.Fatal.
ScanFatal ==
    /\ pc = "loop"
    /\ ScanIter(ScanState).pc = "fatal"
    /\ SetScan(ScanIter(ScanState))
    /\ log' = Append(log, NoEnd)
    /\ UNCHANGED <<data, fileVars, patchVars>>

\* Lines 171-180: a structural and a semantic segment are emitted.
ScanEmit ==
    /\ pc = "loop"
    /\ ScanIter(ScanState).pc = "loop"
    /\ SetScan(ScanIter(ScanState))
    /\ UNCHANGED <<data, log, fileVars, patchVars>>

\* Lines 183-186: the self-check and the return.
ScanCheck ==
    /\ pc = "check"
    /\ IF data # combineSegments(out)
       THEN pc' = "fatal" /\ log' = Append(log, MessedUp)
       ELSE pc' = "returned" /\ log' = log
    /\ UNCHANGED <<scanVars, fileVars, patchVars>>

ScanNext == ScanFinal \/ ScanFatal \/ ScanEmit \/ ScanCheck

SpecScan == ScanInit /\ [][ScanNext]_vars

(***************************************************************************)
(* Properties of the scanner.                                              *)
(***************************************************************************)
Logged(msg) == \E i \in 1..Len(log) : log[i] = msg

SemanticAt(segs, i) == segs[i].lineType # Structural

\* C1: round trip.  Whenever the loop of splitFile has ended without the
\* missing-terminator abort, the concatenation of the emitted segments is the
\* input buffer byte for byte, and the self-check never fires.
C1_RoundTrip ==
    /\ pc \in {"check", "returned"} => combineSegments(out) = data
    /\ ~Logged(MessedUp)

C1_Witness ==
    /\ pc = "returned"
    /\ Len(out) >= 5
    /\ \E i \in 1..Len(out) : SemanticAt(out, i) /\ out[i].data # <<>>

\* The earliest marker is matched and no 0x00 follows it in the remainder.
Malformed(rem, idx) ==
    LET m == NextMarker(rem, idx)
    IN  /\ m.begin # -1
        /\ \A i \in (m.begin + Len(m.ls) + 1)..Len(rem) : rem[i] # 0

\* C2: malformed input is fatal.  From the loop head with a matched marker
\* that no 0x00 follows, the only step is the fatal error, which emits no
\* segment, and after the fatal error nothing is ever returned.
C2_MalformedIsFatal ==
    /\ [][ (pc = "loop" /\ Malformed(remaining, indexMap))
             => (pc' = "fatal" /\ out' = out /\ log' = Append(log, NoEnd)) ]_vars
    /\ [][ pc = "fatal" => pc' = "fatal" ]_vars

C2_Witness ==
    /\ pc = "fatal"
    /\ Logged(NoEnd)
    /\ Len(out) >= 2
    /\ Len(combineSegments(out)) < Len(data)

SameKindBefore(segs, i) ==
    {j \in 1..(i - 1) : segs[j].lineType = segs[i].lineType}

\* C3 as stated: the index of every semantic segment is the number of
\* segments of its kind before it.
C3_IndexCountsKind ==
    pc = "returned" =>
        \A i \in 1..Len(out) :
            SemanticAt(out, i) =>
                out[i].lineIndex = Cardinality(SameKindBefore(out, i))

\* C3 amended: Choice and FileTag indices count the segments of the kind
\* before them; a Text index counts the distinct other index values of the
\* Text segments before it (continuations share the index of their line).
C3_IndexCountsLines ==
    pc = "returned" =>
        \A i \in 1..Len(out) :
            /\ out[i].lineType \in {ChoiceSegment, FileTagSegment} =>
                   out[i].lineIndex = Cardinality(SameKindBefore(out, i))
            /\ out[i].lineType = TextSegment =>
                   out[i].lineIndex =
                       Cardinality({out[j].lineIndex : j \in SameKindBefore(out, i)}
                                   \ {out[i].lineIndex})

C3_Witness ==
    /\ pc = "returned"
    /\ \E i, j \in 1..Len(out) :
          /\ i < j
          /\ out[i].lineType = TextSegment
          /\ out[j].lineType = TextSegment
          /\ out[i].lineIndex = out[j].lineIndex

(***************************************************************************)
(* uint32 arithmetic on little-endian byte quadruples.                     *)
(***************************************************************************)
Lo16(a) == a[1] + 256 * a[2]

Hi16(a) == a[3] + 256 * a[4]

FromHalves(lo, hi) == << lo % 256, lo \div 256, hi % 256, hi \div 256 >>

\* a - b modulo 2^32.
U32Sub(a, b) ==
    LET lo == Lo16(a) - Lo16(b)
        bo == IF lo < 0 THEN 1 ELSE 0
        hi == Hi16(a) - Hi16(b) - bo
    IN  FromHalves(lo % 65536, hi % 65536)

\* a + b modulo 2^32.
U32Add(a, b) ==
    LET lo == Lo16(a) + Lo16(b)
        ca == IF lo >= 65536 THEN 1 ELSE 0
        hi == Hi16(a) + Hi16(b) + ca
    IN  FromHalves(lo % 65536, hi % 65536)

\* a <= n for a small n (0 <= n < 65536).
U32Leq(a, n) == Hi16(a) = 0 /\ Lo16(a) <= n

\* a / n for a small divisor n (0 < n < 32768).
U32Div(a, n) ==
    LET qh == Hi16(a) \div n
        r  == Hi16(a) % n
    IN  FromHalves((r * 65536 + Lo16(a)) \div n, qh)

\* binary.LittleEndian.PutUint32(b[off:], v) for off + 4 <= len(b).
PutUint32(b, off, v) ==
    [i \in 1..Len(b) |-> IF i > off /\ i <= off + 4 THEN v[i - off] ELSE b[i]]

\* binary.LittleEndian.Uint32(b), as its four bytes.
getFileSizeHeader(b) == Slice(b, 0, 4)

(***************************************************************************)
(* fixFileSizeHeader.                                                      *)
(***************************************************************************)
TableStart == 12
RecordSize == 36
OffsetField == 32

HeaderWarning ==
    "WARNING: header suggests there should be a different number of choices"

\* A patcher that stores the length itself as total_size.
SizeFieldOfLength(d, off) == LE32(Len(d))

\* Line 200: the value of total_size.
SizeField(d, off) == U32Sub(LE32(Len(d)), off)

\* Line 204.
NumChoices(off) == U32Div(U32Sub(off, LE32(TableStart)), RecordSize)

\* A patcher that records the position of every semantic segment.
RECURSIVE ChoicePosAnySemantic(_, _)
ChoicePosAnySemantic(segs, pos) ==
    IF segs = <<>> THEN <<>>
    ELSE (IF segs[1].lineType # Structural THEN <<pos>> ELSE <<>>)
         \o ChoicePosAnySemantic(Tail(segs), pos + Len(segs[1].data))

\* Lines 206-213: the running position of every FileTag segment.
RECURSIVE ChoicePos(_, _)
ChoicePos(segs, pos) ==
    IF segs = <<>> THEN <<>>
    ELSE (IF segs[1].lineType = FileTagSegment THEN <<pos>> ELSE <<>>)
         \o ChoicePos(Tail(segs), pos + Len(segs[1].data))

\* A patcher that stores the position relative to size_offset only.
RecordValueNoMarker(p, off) == U32Sub(LE32(p), off)

\* Line 220: the value stored in a record.
RecordValue(p, off) == U32Sub(U32Sub(LE32(p), off), LE32(Len(fileTagStart)))

\* Line 220: the offset of record i's field in the body.
RecordAt(i) == TableStart + (RecordSize * i) + OffsetField

\* Lines 219-221: the loop from record i on; it panics (slice bounds out of
\* range) at the first record that does not lie inside the body.
RECURSIVE PatchTable(_, _, _, _)
PatchTable(d, off, cp, i) ==
    IF i >= Len(cp) THEN [data |-> d, end |-> "patched"]
    ELSE IF RecordAt(i) + 4 > Len(d) THEN [data |-> d, end |-> "panic"]
    ELSE PatchTable(PutUint32(d, RecordAt(i), RecordValue(cp[i + 1], off)),
                    off, cp, i + 1)

\* Lines 199-222.  end is "notable" (return at 202), "mismatch" (return at
\* 216), "patched" (the table is rewritten) or "panic" (index out of range).
fixFileSizeHeader(d, off, segs) ==
    IF Len(d) < 4 THEN [data |-> d, end |-> "panic"]
    ELSE LET d1 == PutUint32(d, 0, SizeField(d, off))
             cp == ChoicePos(segs, 0)
         IN  IF U32Leq(off, TableStart) THEN [data |-> d1, end |-> "notable"]
             ELSE IF LE32(Len(cp)) # NumChoices(off)
             THEN [data |-> d1, end |-> "mismatch"]
             ELSE PatchTable(d1, off, cp, 0)

(***************************************************************************)
(* SpecHeader: fixFileSizeHeader run on bounded bodies and offsets.        *)
(***************************************************************************)
MaxHdrChunks == 3
MaxGrow == 1

\* A filler of n bytes without 0x00 and without marker bytes.
Filler(n) == [i \in 1..n |-> 1 + (i % 100)]

HdrChunks ==
    { fileTagStart \o <<65, 0>>, fileTagStart \o <<0>>,
      choiceStart \o <<66, 0>>, <<7>> }

HdrOffsets ==
    { LE32(0), LE32(5), LE32(12), LE32(13), LE32(47), LE32(48), LE32(49),
      LE32(84), LE32(120), <<255, 255, 255, 255>>, <<0, 0, 0, 255>> }

\* The segments of a scanned buffer, each semantic payload grown by g bytes
\* (a substituted translation).
Grown(segs, g) ==
    [i \in 1..Len(segs) |->
        IF segs[i].lineType = Structural THEN segs[i]
        ELSE [segs[i] EXCEPT !.data = @ \o [k \in 1..g |-> 67]]]

HdrInit ==
    /\ pc = "header"
    /\ base = "1_1_1.scn"
    /\ fileSizeOffset \in HdrOffsets
    /\ \E n \in {0, 2, 12, 48, 84}, c \in Concats(HdrChunks, MaxHdrChunks), g \in 0..MaxGrow :
          split = Grown(splitFile(Filler(n) \o c).segs, g)
    /\ outData = combineSegments(split)
    /\ orig = <<>>
    /\ data = <<>>
    /\ remaining = <<>>
    /\ out = <<>>
    /\ indexMap = ZeroIndex
    /\ log = <<>>
    /\ NoPatch

HdrResult == fixFileSizeHeader(outData, fileSizeOffset, split)

\* Lines 200-203.
HdrNoTable ==
    /\ pc = "header"
    /\ HdrResult.end = "notable"
    /\ outData' = HdrResult.data
    /\ pc' = "headerDone"
    /\ UNCHANGED <<scanVars, log, base, fileSizeOffset, split, orig, patchVars>>

\* Lines 200-217.
HdrMismatch ==
    /\ pc = "header"
    /\ HdrResult.end = "mismatch"
    /\ outData' = HdrResult.data
    /\ log' = Append(log, HeaderWarning)
    /\ pc' = "headerDone"
    /\ UNCHANGED <<scanVars, base, fileSizeOffset, split, orig, patchVars>>

\* Lines 200-221.
HdrPatched ==
    /\ pc = "header"
    /\ HdrResult.end = "patched"
    /\ outData' = HdrResult.data
    /\ pc' = "headerDone"
    /\ UNCHANGED <<scanVars, log, base, fileSizeOffset, split, orig, patchVars>>

\* Lines 200 and 220: a body too short for the field written panics.
HdrPanic ==
    /\ pc = "header"
    /\ HdrResult.end = "panic"
    /\ outData' = HdrResult.data
    /\ pc' = "panic"
    /\ UNCHANGED <<scanVars, log, base, fileSizeOffset, split, orig, patchVars>>

HdrNext == HdrNoTable \/ HdrMismatch \/ HdrPatched \/ HdrPanic

SpecHeader == HdrInit /\ [][HdrNext]_vars

(***************************************************************************)
(* Properties of the header patcher.  The expected values are computed     *)
(* with signed integers, the model's with byte-wise borrow arithmetic.     *)
(***************************************************************************)
Complement(v) == [i \in 1..4 |-> 255 - v[i]]

\* The little-endian bytes of k modulo 2^32, for -2^31 < k < 2^31.
ModLE32(k) == IF k >= 0 THEN LE32(k) ELSE Complement(LE32(-k - 1))

\* The integer congruent to the uint32 a modulo 2^32 in -2^31 .. 2^31 - 1;
\* it is the uint32 itself when it is not negative.
Signed(a) ==
    IF a[4] < 128 THEN Lo16(a) + 65536 * Hi16(a)
    ELSE -(Lo16(Complement(a)) + 65536 * Hi16(Complement(a))) - 1

\* The body handed to fixFileSizeHeader.
BodyBefore == combineSegments(split)

FileTagAt == {i \in 1..Len(split) : split[i].lineType = FileTagSegment}

\* The index in split of the r-th FileTag segment (r from 0).
NthFileTag(r) ==
    CHOOSE i \in FileTagAt : Cardinality({j \in FileTagAt : j < i}) = r

\* The sum of the payload lengths of the segments before segment i.
PosBefore(i) == Len(combineSegments(SubSeq(split, 1, i - 1)))

\* 1-based positions of the offset fields of records 0..n-1.
FieldBytes(n) ==
    {RecordAt(r) + k : r \in 0..(n - 1), k \in 1..4}

\* size_offset > 12 and the FileTag count equals (size_offset - 12) / 36.
TableMatches ==
    /\ Signed(fileSizeOffset) > TableStart
    /\ Cardinality(FileTagAt) = (Signed(fileSizeOffset) - TableStart) \div RecordSize

\* size_offset > 12 (as a uint32) and the FileTag count differs.
TableMismatch ==
    /\ ~(Signed(fileSizeOffset) \in 0..TableStart)
    /\ ~TableMatches

\* C4: after fixFileSizeHeader returns, bytes [0,4) of the body are the
\* little-endian (len(body) - size_offset) mod 2^32, and when size_offset <= 12
\* the length and every other byte are as before.
C4_TotalSize ==
    pc = "headerDone" =>
        /\ Slice(outData, 0, 4) = ModLE32(Len(BodyBefore) - Signed(fileSizeOffset))
        /\ Signed(fileSizeOffset) \in 0..TableStart =>
              /\ Len(outData) = Len(BodyBefore)
              /\ \A i \in 5..Len(outData) : outData[i] = BodyBefore[i]

C4_Witness ==
    /\ pc = "headerDone"
    /\ Signed(fileSizeOffset) \in 1..TableStart
    /\ Len(outData) > 4
    /\ Slice(outData, 0, 4) # Slice(BodyBefore, 0, 4)

\* C5: after fixFileSizeHeader returns with size_offset > 12 and a matching
\* FileTag count, record i's field holds LE32(pos_i - size_offset - 3), and
\* apart from bytes [0,4) and these fields no byte of the body changes.
C5_OffsetTable ==
    (pc = "headerDone" /\ TableMatches) =>
        LET n == Cardinality(FileTagAt)
        IN  /\ Len(outData) = Len(BodyBefore)
            /\ \A r \in 0..(n - 1) :
                  Slice(outData, RecordAt(r), RecordAt(r) + 4) =
                      ModLE32(PosBefore(NthFileTag(r)) - Signed(fileSizeOffset)
                              - Len(fileTagStart))
            /\ \A i \in 5..Len(outData) :
                  i \notin FieldBytes(n) => outData[i] = BodyBefore[i]

C5_Witness ==
    /\ pc = "headerDone"
    /\ TableMatches
    /\ Cardinality(FileTagAt) = 2
    /\ \E g \in 1..MaxGrow : Len(split[2].data) = 1 + g
    /\ Slice(outData, RecordAt(1), RecordAt(1) + 4) # Slice(BodyBefore, RecordAt(1), RecordAt(1) + 4)

(***************************************************************************)
(* The hex-string representation: a character is a hex digit 0..15 or the  *)
(* space.  A pattern is a sequence of characters and wildcards.            *)
(***************************************************************************)
Space == 16
AnyChar == 17

\* Lines 361-373: two digits per byte, one space between bytes.
hexEncode(d) ==
    IF d = <<>> THEN <<>>
    ELSE [i \in 1..(3 * Len(d) - 1) |->
            IF i % 3 = 1 THEN d[(i + 2) \div 3] \div 16
            ELSE IF i % 3 = 2 THEN d[(i + 1) \div 3] % 16
            ELSE Space]

NotSpace(ch) == ch # Space

\* strings.ReplaceAll(s, " ", "").
StripSpaces(str) == SelectSeq(str, NotSpace)

\* hex.DecodeString of a string of digits; an odd length is an error.
HexBytes(digits) ==
    [i \in 1..(Len(digits) \div 2) |-> 16 * digits[2 * i - 1] + digits[2 * i]]

\* Lines 375-379: err is TRUE when Fatal(err) ends the run.
hexDecode(str) ==
    LET digits == StripSpaces(str)
    IN  [err |-> Len(digits) % 2 = 1, bytes |-> HexBytes(digits)]

\* The pattern text of a byte (two digits) or of ".." (b = -1).
PatByte(b) == IF b = -1 THEN <<AnyChar, AnyChar>> ELSE << b \div 16, b % 16 >>

\* A pattern written as bytes and ".." separated by single spaces.
RECURSIVE Pattern(_)
Pattern(bs) ==
    IF bs = <<>> THEN <<>>
    ELSE PatByte(bs[1]) \o (IF Len(bs) > 1 THEN <<Space>> ELSE <<>>) \o Pattern(Tail(bs))

\* The pattern matches the string at 0-based offset i ("." matches any
\* character but a newline, and the string holds none).
MatchAt(str, pat, i) ==
    /\ i + Len(pat) <= Len(str)
    /\ \A k \in 1..Len(pat) : pat[k] = AnyChar \/ pat[k] = str[i + k]

\* The 0-based offsets at which the pattern matches.
Matches(str, pat) == {i \in 0..(Len(str) - Len(pat)) : MatchAt(str, pat, i)}

\* The matches a regexp replace-all takes among the candidates M, from
\* offset lo on: the leftmost one, then the leftmost one after its end.
RECURSIVE Leftmost(_, _, _)
Leftmost(M, lo, n) ==
    LET c == {i \in M : i >= lo}
    IN  IF c = {} THEN {}
        ELSE LET i == CHOOSE i \in c : \A j \in c : i <= j
             IN  {i} \cup Leftmost(M, i + n, n)

\* The 1-based positions of str covered by the matches taken.
Covered(str, pat) ==
    {i + k : i \in Leftmost(Matches(str, pat), 0, Len(pat)), k \in 1..Len(pat)}

\* regexp.ReplaceAllString(str, ""): the leftmost non-overlapping matches of
\* a fixed-length pattern are deleted.
DeleteAll(str, pat) ==
    LET cov  == Covered(str, pat)
        keep == SelectSeq([i \in 1..Len(str) |-> <<i, str[i]>>],
                          LAMBDA e : e[1] \notin cov)
    IN  [i \in 1..Len(keep) |-> keep[i][2]]

(***************************************************************************)
(* removeBubbles.                                                          *)
(***************************************************************************)
reBubble0 ==
    Pattern(<< 240, 69, 242, -1, -1, -1, -1, 242, -1, -1, -1, -1,
               242, -1, -1, -1, -1, 242, -1, -1, -1, -1 >>)

reBubble1 == Pattern(<< 240, 70, 242, -1, -1, -1, -1, 240, 32 >>)

reBubble2 == Pattern(<< 240, 70, 242, 7, 0, 0, 0 >>)

\* Lines 385-391.
removeBubbles(d) ==
    hexDecode(DeleteAll(DeleteAll(DeleteAll(hexEncode(d), reBubble0), reBubble1),
                        reBubble2))

(***************************************************************************)
(* fixRouteChange.                                                         *)
(***************************************************************************)
reRouteChange == Pattern(<< 242, -1, -1, -1, -1, 240, 26, 241 >>)

RouteFiles == {"4_9_7.scn", "4_10_2.scn", "4_13_9.scn", "5_10_1.scn"}

\* A fix that adds the absolute value of the length difference.
AddDiffMagnitude(v, diff) ==
    IF diff >= 0 THEN U32Add(v, LE32(diff)) ELSE U32Add(v, LE32(-diff))

\* Line 410: uint32(int(offset) + fileSizeDiff).
AddDiff(v, diff) ==
    IF diff >= 0 THEN U32Add(v, LE32(diff)) ELSE U32Sub(v, LE32(-diff))

\* Lines 407-417: the replacement of one match s.
RouteReplace(s, diff) ==
    LET offsetStr == Slice(s, 3, 3 + 11)
        dec       == hexDecode(offsetStr)
    IN  [err |-> dec.err \/ Len(dec.bytes) < 4,
         str |-> hexEncode(<<242>>) \o <<Space>>
                 \o hexEncode(AddDiff(getFileSizeHeader(dec.bytes), diff))
                 \o <<Space>> \o hexEncode(fileTagStart)]

\* regexp.ReplaceAllStringFunc(str, f) for reRouteChange: every match taken
\* is replaced by f of it, which has the length of the match.
ReplaceRoutes(str, diff) ==
    LET n     == Len(reRouteChange)
        taken == Leftmost(Matches(str, reRouteChange), 0, n)
        at(i) == CHOOSE m \in taken : m < i /\ i <= m + n
    IN  [err |-> \E m \in taken : RouteReplace(Slice(str, m, m + n), diff).err,
         str |-> [i \in 1..Len(str) |->
                    IF \E m \in taken : m < i /\ i <= m + n
                    THEN RouteReplace(Slice(str, at(i), at(i) + n), diff).str[i - at(i)]
                    ELSE str[i]]]

\* Lines 395-420.
fixRouteChange(file, d, fileSizeDiff) ==
    IF file \notin RouteFiles THEN [err |-> FALSE, bytes |-> d]
    ELSE LET r   == ReplaceRoutes(hexEncode(d), fileSizeDiff)
             dec == hexDecode(r.str)
         IN  [err |-> r.err \/ dec.err, bytes |-> dec.bytes]

(***************************************************************************)
(* Text: a string is a sequence of code points.                            *)
(***************************************************************************)
Ch == [ nl |-> 10, sp |-> 32, quote |-> 34, d0 |-> 48, d9 |-> 57, N |-> 78,
        V |-> 86, bs |-> 92, c |-> 99, n |-> 110, tilde |-> 126,
        lcorner |-> 12300, rcorner |-> 12301, llent |-> 12304, rlent |-> 12305 ]

\* s has the prefix pre.
HasPrefix(s, pre) == Len(pre) <= Len(s) /\ SubSeq(s, 1, Len(pre)) = pre

\* strings.ReplaceAll / bytes.Replace(.., -1) for a non-empty old.
RECURSIVE ReplaceAll(_, _, _)
ReplaceAll(s, old, new) ==
    IF Len(s) < Len(old) THEN s
    ELSE IF HasPrefix(s, old) THEN new \o ReplaceAll(SliceFrom(s, Len(old)), old, new)
    ELSE <<s[1]>> \o ReplaceAll(Tail(s), old, new)

\* strings.Split(s, sep) for a one-character sep: never empty.
RECURSIVE SplitOn(_, _)
SplitOn(s, sep) ==
    LET i == IndexByte(s, sep)
    IN  IF i = -1 THEN <<s>>
        ELSE <<Slice(s, 0, i)>> \o SplitOn(SliceFrom(s, i + 1), sep)

\* strings.Join(parts, sep) for a one-character sep.
RECURSIVE Join(_, _)
Join(parts, sep) ==
    IF parts = <<>> THEN <<>>
    ELSE IF Len(parts) = 1 THEN parts[1]
    ELSE parts[1] \o <<sep>> \o Join(Tail(parts), sep)

\* strings.TrimSuffix(s, " ").
TrimSuffix(s) ==
    IF s # <<>> /\ s[Len(s)] = Ch.sp THEN SubSeq(s, 1, Len(s) - 1) ELSE s

\* Lines 236-238.
removePPNewLines(s) ==
    ReplaceAll(ReplaceAll(s, <<Ch.bs, Ch.N>>, <<Ch.nl>>), <<Ch.bs, Ch.n>>, <<Ch.nl>>)

\* Lines 242-244.
addPPNewLines(s) == ReplaceAll(s, <<Ch.nl>>, <<Ch.bs, Ch.N>>)

IsDigit(ch) == ch >= Ch.d0 /\ ch <= Ch.d9

\* The number of leading characters of s that satisfy the class.
RECURSIVE DigitRun(_)
DigitRun(s) == IF s # <<>> /\ IsDigit(s[1]) THEN 1 + DigitRun(Tail(s)) ELSE 0

RECURSIVE NonQuoteRun(_)
NonQuoteRun(s) == IF s # <<>> /\ s[1] # Ch.quote THEN 1 + NonQuoteRun(Tail(s)) ELSE 0

\* Line 330: the length of the match of \\c[0-9]+ at the start of s, or 0.
ColorMatch(s) ==
    IF HasPrefix(s, <<Ch.bs, Ch.c>>) /\ DigitRun(SliceFrom(s, 2)) > 0
    THEN 2 + DigitRun(SliceFrom(s, 2))
    ELSE 0

\* Line 331: the length of the match of \\V\"[^\"]*\"" at the start of s, or
\* 0: the pattern ends with two quotation marks.
VoiceMatch(s) ==
    IF HasPrefix(s, <<Ch.bs, Ch.V, Ch.quote>>)
    THEN LET k == NonQuoteRun(SliceFrom(s, 3))
         IN  IF HasPrefix(SliceFrom(s, 3 + k), <<Ch.quote, Ch.quote>>)
             THEN 3 + k + 2 ELSE 0
    ELSE 0

\* colorRE.ReplaceAllString(s, "").
RECURSIVE StripColor(_)
StripColor(s) ==
    IF s = <<>> THEN <<>>
    ELSE IF ColorMatch(s) > 0 THEN StripColor(SliceFrom(s, ColorMatch(s)))
    ELSE <<s[1]>> \o StripColor(Tail(s))

\* voiceRE.ReplaceAllString(s, "").
RECURSIVE StripVoice(_)
StripVoice(s) ==
    IF s = <<>> THEN <<>>
    ELSE IF VoiceMatch(s) > 0 THEN StripVoice(SliceFrom(s, VoiceMatch(s)))
    ELSE <<s[1]>> \o StripVoice(Tail(s))

\* len of a Go string: the bytes of its UTF-8 form.
RECURSIVE Utf8Len(_)
Utf8Len(s) ==
    IF s = <<>> THEN 0
    ELSE (IF s[1] < 128 THEN 1 ELSE IF s[1] < 2048 THEN 2 ELSE 3) + Utf8Len(Tail(s))

\* Lines 333-337.
lineLength(s) == Utf8Len(StripVoice(StripColor(s)))

\* A wrapper that measures the line before the token is added.
RECURSIVE WrapPartsLate(_, _, _, _)
WrapPartsLate(parts, cur, acc, width) ==
    IF parts = <<>>
    THEN (IF Len(cur) # 0 THEN Append(acc, Join(cur, Ch.sp)) ELSE acc)
    ELSE IF lineLength(Join(cur, Ch.sp)) > width
         THEN WrapPartsLate(Tail(parts), <<parts[1]>>,
                            Append(acc, Join(cur, Ch.sp)), width)
         ELSE WrapPartsLate(Tail(parts), Append(cur, parts[1]), acc, width)

\* Lines 346-356: the tokens of one line; cur is curLine, acc the lines
\* closed so far.
RECURSIVE WrapParts(_, _, _, _)
WrapParts(parts, cur, acc, width) ==
    IF parts = <<>>
    THEN (IF Len(cur) # 0 THEN Append(acc, Join(cur, Ch.sp)) ELSE acc)
    ELSE LET cur1 == Append(cur, parts[1])
         IN  IF lineLength(Join(cur1, Ch.sp)) > width
             THEN WrapParts(Tail(parts), <<parts[1]>>,
                            Append(acc, Join(cur, Ch.sp)), width)
             ELSE WrapParts(Tail(parts), cur1, acc, width)

\* Lines 342-357: the loop over the lines.
RECURSIVE WrapLines(_, _)
WrapLines(lines, width) ==
    IF lines = <<>> THEN <<>>
    ELSE WrapParts(SplitOn(TrimSuffix(lines[1]), Ch.sp), <<>>, <<>>, width)
         \o WrapLines(Tail(lines), width)

\* Lines 339-359; width is *wordWrapLength.
wrap(s, width) == Join(WrapLines(SplitOn(s, Ch.nl), width), Ch.nl)

\* jisEncoder: ASCII is kept, the four brackets have two-byte codes, any
\* other character of the model's alphabet is not representable.
JisChar(ch) ==
    IF ch < 128 THEN <<ch>>
    ELSE IF ch = Ch.lcorner THEN <<129, 117>>
    ELSE IF ch = Ch.rcorner THEN <<129, 118>>
    ELSE IF ch = Ch.llent THEN <<129, 121>>
    ELSE IF ch = Ch.rlent THEN <<129, 122>>
    ELSE <<>>

RECURSIVE JisBytes(_)
JisBytes(s) == IF s = <<>> THEN <<>> ELSE JisChar(s[1]) \o JisBytes(Tail(s))

\* jisEncoder.Bytes: err when a character is not representable.
jisEncode(s) ==
    [err |-> \E i \in 1..Len(s) : JisChar(s[i]) = <<>>, bytes |-> JisBytes(s)]

(***************************************************************************)
(* SpecBubble: removeBubbles applied to a bounded buffer, and again to its *)
(* result.                                                                 *)
(***************************************************************************)
MaxBubbleChunks == 4

BubbleChunks ==
    { << 240, 69, 242, 1, 2, 3, 4, 242, 1, 2, 3, 4, 242, 1, 2, 3, 4, 242, 1, 2, 3, 4 >>,
      << 240, 70, 242, 1, 2, 3, 4, 240, 32 >>,
      << 240, 70, 242, 7, 0, 0, 0 >>,
      << 240, 70 >>, << 242 >>, << 7, 0, 0, 0 >>, << 240, 32 >>, << 65 >> }

BubbleInit ==
    /\ pc = "bubbles"
    /\ orig \in Concats(BubbleChunks, MaxBubbleChunks)
    /\ data = orig
    /\ outData = <<>>
    /\ base = "1_1_1.scn"
    /\ fileSizeOffset = LE32(0)
    /\ split = <<>>
    /\ remaining = <<>>
    /\ out = <<>>
    /\ indexMap = ZeroIndex
    /\ log = <<>>
    /\ NoPatch

HexFatal == "encoding/hex: odd length hex string"

\* removeBubbles(orig); hexDecode's Fatal(err) ends the run.
BubbleFirstPass ==
    /\ pc = "bubbles"
    /\ IF removeBubbles(orig).err
       THEN pc' = "fatal" /\ log' = Append(log, HexFatal) /\ data' = data
       ELSE pc' = "cleaned" /\ log' = log /\ data' = removeBubbles(orig).bytes
    /\ UNCHANGED <<remaining, out, indexMap, fileVars, patchVars>>

\* removeBubbles applied to the cleaned buffer.
BubbleSecondPass ==
    /\ pc = "cleaned"
    /\ IF removeBubbles(data).err
       THEN pc' = "fatal" /\ log' = Append(log, HexFatal) /\ outData' = outData
       ELSE pc' = "cleanedAgain" /\ log' = log /\ outData' = removeBubbles(data).bytes
    /\ UNCHANGED <<scanVars, base, fileSizeOffset, split, orig, patchVars>>

BubbleNext == BubbleFirstPass \/ BubbleSecondPass

SpecBubble == BubbleInit /\ [][BubbleNext]_vars

\* C9: bubble removal is idempotent: a second pass over the output of
\* removeBubbles deletes nothing.
C9_BubblesIdempotent ==
    pc = "cleanedAgain" => outData = data

(***************************************************************************)
(* patch: the translation table.                                           *)
(***************************************************************************)

\* Lines 322-328.
strictSizeMode(file) == file \in {"2_6_6.scn", "4_12_1.scn"}

\* Lines 230-232: the key "base-kind-index", kept as a triple.
mapKey(file, st, lineIndex) == <<file, st, lineIndex>>

\* A TLLine, with the columns patch reads.  The Key column is a mapKey or
\* empty.
TLLine(key, index, translated, editted) ==
    [Key |-> key, Index |-> index, TranslatedText |-> translated,
     EdittedText |-> editted]

\* Lines 438-440: the record is used.
LineChosen(l) ==
    ~((l.TranslatedText = <<>> /\ l.EdittedText = <<>>) \/ l.Key = <<>>)

\* Lines 441-447: the edited text wins, name brackets are replaced.
PrepText(l) ==
    LET tl == IF l.EdittedText # <<>> THEN l.EdittedText ELSE l.TranslatedText
    IN  ReplaceAll(ReplaceAll(tl, <<Ch.llent>>, <<Ch.lcorner>>),
                   <<Ch.rlent>>, <<Ch.rcorner>>)

\* A table builder that does not reflow.
ReflowNone(tl, width) == tl

\* Line 449.
Reflow(tl, width) == wrap(tl, width)

\* A table builder that looks for the tildes without their newline escapes.
SentinelTildes == <<Ch.tilde, Ch.tilde, Ch.tilde, Ch.tilde>>

\* Line 456: the text that stands for a split line.
Sentinel == <<Ch.bs, Ch.N, Ch.tilde, Ch.tilde, Ch.tilde, Ch.tilde, Ch.bs, Ch.N>>

\* Lines 453-456: the bytes stored for a reflowed text.  bytes.Replace
\* returns a copy made by append([]byte(nil), ...), so an empty result is nil.
EncodeText(tlWrapped, index) ==
    LET jis == jisEncode(addPPNewLines(tlWrapped))
    IN  [err   |-> jis.err,
         bytes |-> ReplaceAll(jis.bytes, Sentinel, <<0>> \o lineStart(index))]

MapPut(m, k, v) == [x \in (DOMAIN m) \cup {k} |-> IF x = k THEN v ELSE m[x]]

\* lineMap[k]; nil (and the empty slice) is <<>>.
Lookup(m, k) == IF k \in DOMAIN m THEN m[k] ELSE <<>>

\* Lines 435-458: the loop over the records; a later record replaces an
\* earlier one with the same key.
RECURSIVE BuildMap(_, _, _)
BuildMap(lines, width, m) ==
    IF lines = <<>> THEN [err |-> FALSE, map |-> m]
    ELSE IF ~LineChosen(lines[1]) THEN BuildMap(Tail(lines), width, m)
    ELSE LET v == EncodeText(Reflow(PrepText(lines[1]), width), lines[1].Index)
         IN  IF v.err THEN [err |-> TRUE, map |-> m]
             ELSE BuildMap(Tail(lines), width, MapPut(m, lines[1].Key, v.bytes))

(***************************************************************************)
(* patch: the substitution loop.                                           *)
(***************************************************************************)
StrictWarning ==
    "WARNING: Translation line is too long for line in strict size mode"

\* A substitution that does not pad.
PadNone(eng, n) == eng

\* Lines 497-499.
PadTo(eng, n) == eng \o [k \in 1..(n - Len(eng)) |-> Ch.sp]

\* Lines 488-503: the segment after the loop body; rejected is TRUE when the
\* warning of line 494 is logged.
SubstSeg(ss, m, file) ==
    LET eng == Lookup(m, mapKey(file, ss.lineType, ss.lineIndex))
    IN  IF ss.lineType = Structural \/ eng = <<>>
        THEN [seg |-> ss, rejected |-> FALSE]
        ELSE IF strictSizeMode(file)
        THEN IF Len(eng) > Len(ss.data)
             THEN [seg |-> ss, rejected |-> TRUE]
             ELSE [seg |-> [ss EXCEPT !.data = PadTo(eng, Len(ss.data))],
                   rejected |-> FALSE]
        ELSE [seg |-> [ss EXCEPT !.data = eng], rejected |-> FALSE]

\* Lines 487-504: the segments after the loop.
SubstAll(segs, m, file) == [i \in 1..Len(segs) |-> SubstSeg(segs[i], m, file).seg]

\* Lines 487-504: the warnings of the loop.
RECURSIVE SubstWarnings(_, _, _)
SubstWarnings(segs, m, file) ==
    IF segs = <<>> THEN <<>>
    ELSE (IF SubstSeg(segs[1], m, file).rejected THEN <<StrictWarning>> ELSE <<>>)
         \o SubstWarnings(Tail(segs), m, file)

(***************************************************************************)
(* Spec: patch run on one bounded file and one bounded translation table.  *)
(***************************************************************************)
MaxFileChunks == 2

FileNames ==
    {"1_1_1.scn", "2_6_6.scn", "4_12_1.scn"} \cup RouteFiles

FileChunks ==
    { lineStart(0) \o <<97, 98, 99, 100, 101, 102, 103, 0>>,
      choiceStart \o <<120, 121, 0>>,
      fileTagStart \o <<102, 0>>,
      <<240, 70, 242, 7, 0, 0, 0>>,
      <<242, 5, 0, 0, 0>> \o fileTagStart \o <<103, 0>>,
      <<242>> \o fileTagStart \o <<104>> \o fileTagStart \o <<0>> }

\* A file whose total_size field makes size_offset equal to off: the field,
\* a filler up to off, and the body.
FileOf(off, body) ==
    LE32(Len(body)) \o SubSeq(Filler(off), 5, off) \o body

Files == {FileOf(off, b) : off \in {TableStart, 48}, b \in Concats(FileChunks, MaxFileChunks)}

\* The translation tables tried for a file.
Tables(f) ==
    { <<>>,
      << TLLine(mapKey(f, TextSegment, 0), 0, <<97, 98>>, <<>>) >>,
      << TLLine(mapKey(f, TextSegment, 0), 0, <<97, 98, 99, 100, 101, 102, 103, 104>>, <<>>),
         TLLine(mapKey(f, ChoiceSegment, 0), 0, <<113>>, <<>>) >>,
      << TLLine(mapKey(f, TextSegment, 0), 0, <<97, 97, 32, 98, 98>>, <<>>),
         TLLine(mapKey(f, FileTagSegment, 0), 0, <<103, 103>>, <<>>) >>,
      << TLLine(mapKey(f, ChoiceSegment, 0), 0, <<113>>, <<122>>),
         TLLine(mapKey(f, FileTagSegment, 0), 0, <<104, 104, 104>>, <<>>),
         TLLine(mapKey(f, FileTagSegment, 0), 0, <<104>>, <<>>) >>,
      << TLLine(mapKey(f, TextSegment, 0), 0, <<97, 10, 126, 126, 126, 126, 10, 98>>, <<>>) >>,
      << TLLine(<<>>, 0, <<97>>, <<>>),
         TLLine(mapKey(f, TextSegment, 0), 0, <<>>, <<>>),
         TLLine(mapKey(f, FileTagSegment, 0), 0, <<Ch.sp>>, <<>>),
         TLLine(mapKey(f, ChoiceSegment, 0), 0, <<Ch.llent, 97, Ch.rlent>>, <<>>) >>,
      << TLLine(mapKey(f, TextSegment, 0), 0, <<8364>>, <<>>) >> }

WrapWidths == {4}

Init ==
    /\ pc = "start"
    /\ base \in FileNames
    /\ orig \in Files
    /\ tlLines \in Tables(base)
    /\ wordWrapLength \in WrapWidths
    /\ lineMap = <<>>
    /\ written = <<>>
    /\ data = <<>>
    /\ fileSizeOffset = LE32(0)
    /\ split = <<>>
    /\ outData = <<>>
    /\ remaining = <<>>
    /\ out = <<>>
    /\ indexMap = ZeroIndex
    /\ log = <<>>

EncodeFatal == "encoding: rune not supported by encoding."

\* Lines 435-458.
BuildLineMap ==
    /\ pc = "start"
    /\ LET r == BuildMap(tlLines, wordWrapLength, <<>>)
       IN  IF r.err
           THEN pc' = "fatal" /\ log' = Append(log, EncodeFatal) /\ lineMap' = lineMap
           ELSE pc' = "read" /\ log' = log /\ lineMap' = r.map
    /\ UNCHANGED <<scanVars, fileVars, tlLines, wordWrapLength, written>>

\* Lines 473-483: the file is read, size_offset is derived from its header
\* (Uint32 panics on a file of less than 4 bytes), bubbles are removed unless
\* the file is under the strict-size policy.
ReadFile ==
    /\ pc = "read"
    /\ IF Len(orig) < 4
       THEN pc' = "panic" /\ UNCHANGED <<data, fileSizeOffset, log>>
       ELSE /\ fileSizeOffset' = U32Sub(LE32(Len(orig)), getFileSizeHeader(orig))
            /\ IF strictSizeMode(base)
               THEN pc' = "split" /\ data' = orig /\ log' = log
               ELSE IF removeBubbles(orig).err
               THEN pc' = "fatal" /\ data' = orig /\ log' = Append(log, HexFatal)
               ELSE pc' = "split" /\ data' = removeBubbles(orig).bytes /\ log' = log
    /\ UNCHANGED <<remaining, out, indexMap, base, split, outData, orig, patchVars>>

\* Line 486: the outcome r of the scan.
SetSplit(r) ==
    IF r.err # ""
    THEN pc' = "fatal" /\ log' = Append(log, r.err) /\ split' = split
    ELSE pc' = "subst" /\ log' = log /\ split' = r.segs

\* Line 486.
SplitFile ==
    /\ pc = "split"
    /\ SetSplit(splitFile(data))
    /\ UNCHANGED <<scanVars, base, fileSizeOffset, outData, orig, patchVars>>

\* Lines 487-504.
Substitute ==
    /\ pc = "subst"
    /\ split' = SubstAll(split, lineMap, base)
    /\ log' = log \o SubstWarnings(split, lineMap, base)
    /\ pc' = "assemble"
    /\ UNCHANGED <<scanVars, base, fileSizeOffset, outData, orig, patchVars>>

\* Lines 505-506.
Assemble ==
    /\ pc = "assemble"
    /\ LET r == fixFileSizeHeader(combineSegments(split), fileSizeOffset, split)
       IN  /\ outData' = r.data
           /\ pc' = IF r.end = "panic" THEN "panic" ELSE "route"
           /\ log' = IF r.end = "mismatch" THEN Append(log, HeaderWarning) ELSE log
    /\ UNCHANGED <<scanVars, base, fileSizeOffset, split, orig, patchVars>>

\* Line 507.
RouteChange ==
    /\ pc = "route"
    /\ LET r == fixRouteChange(base, outData, Len(outData) - Len(orig))
       IN  IF r.err
           THEN pc' = "fatal" /\ log' = Append(log, HexFatal) /\ outData' = outData
           ELSE pc' = "dump" /\ log' = log /\ outData' = r.bytes
    /\ UNCHANGED <<scanVars, base, fileSizeOffset, split, orig, patchVars>>

\* Line 508: the outcome r of the scan.
SetDump(r) ==
    IF r.err # ""
    THEN pc' = "fatal" /\ log' = Append(log, r.err)
    ELSE pc' = "write" /\ log' = log

\* Line 508: the arguments of logV are evaluated whatever the verbose flag,
\* so the output is scanned again.
DumpSegments ==
    /\ pc = "dump"
    /\ SetDump(splitFile(outData))
    /\ UNCHANGED <<scanVars, fileVars, patchVars>>

\* Lines 509-510.
WriteFile ==
    /\ pc = "write"
    /\ written' = Append(written, [name |-> base, bytes |-> outData])
    /\ pc' = "done"
    /\ UNCHANGED <<scanVars, fileVars, log, tlLines, lineMap, wordWrapLength>>

Next ==
    \/ BuildLineMap
    \/ ReadFile
    \/ SplitFile
    \/ Substitute
    \/ Assemble
    \/ RouteChange
    \/ DumpSegments
    \/ WriteFile

Spec == Init /\ [][Next]_vars

(***************************************************************************)
(* Properties of the patch pipeline.                                       *)
(***************************************************************************)
\* The file has been read and the run has not stopped before the scan.
AfterRead == pc \in {"split", "subst", "assemble", "route", "dump", "write", "done"}

\* The segments of the buffer before substitution.
PreSegs == splitFile(data).segs

\* The sum of the payload lengths of the segments before segment i of the
\* buffer before substitution.
PrePosBefore(i) == Len(combineSegments(SubSeq(PreSegs, 1, i - 1)))

Spaces(n) == [k \in 1..n |-> Ch.sp]

Count(seq, x) == Cardinality({j \in 1..Len(seq) : seq[j] = x})

\* The stages of lines 507-510.
StageAfter == [route |-> "dump", dump |-> "write", write |-> "done"]

\* The warning of line 215 has been logged and the file is not yet written.
AfterMismatch == Logged(HeaderWarning) /\ pc \in DOMAIN StageAfter

\* C6: when size_offset > 12 and the FileTag count differs from
\* (size_offset - 12) / 36, fixFileSizeHeader logs the warning, stores
\* total_size, leaves bytes [12, size_offset) of the body as they were, the
\* run goes on to the route-change stage, and from there every step leads
\* to the next stage, never to a stop, the last one writing the buffer.
C6_MismatchRecoverable ==
    /\ [][(pc = "assemble" /\ TableMismatch /\ Len(BodyBefore) >= 4) =>
            /\ pc' = "route"
            /\ log' = Append(log, HeaderWarning)
            /\ Len(outData') = Len(BodyBefore)
            /\ Slice(outData', 0, 4) =
                  ModLE32(Len(BodyBefore) - Signed(fileSizeOffset))
            /\ \A i \in (TableStart + 1)..Signed(fileSizeOffset) :
                  i <= Len(BodyBefore) => outData'[i] = BodyBefore[i]]_vars
    /\ [][AfterMismatch =>
            /\ pc' = StageAfter[pc]
            /\ pc = "write" => written' = << [name |-> base, bytes |-> outData] >>]_vars

C6_Witness ==
    /\ pc = "done"
    /\ Logged(HeaderWarning)
    /\ Signed(fileSizeOffset) = 48
    /\ Len(written) = 1
    /\ Slice(written[1].bytes, 0, 4) # Slice(orig, 0, 4)
    /\ Slice(written[1].bytes, TableStart, 48) = Slice(orig, TableStart, 48)

\* The segments of a strict-size file for which the table holds a
\* replacement, and those whose replacement is longer than the payload.
Replaced == {i \in 1..Len(PreSegs) :
                /\ PreSegs[i].lineType # Structural
                /\ Lookup(lineMap, mapKey(base, PreSegs[i].lineType, PreSegs[i].lineIndex)) # <<>>}

TooLong == {i \in Replaced :
               Len(Lookup(lineMap, mapKey(base, PreSegs[i].lineType, PreSegs[i].lineIndex)))
                   > Len(PreSegs[i].data)}

\* C7: in a strict-size file, a semantic segment with a payload of n bytes
\* and a replacement of m bytes keeps its payload and a warning is logged
\* when m > n, and gets the replacement followed by n - m spaces when
\* m <= n; every payload keeps its length and every segment its offset.
C7_StrictSubstitution ==
    (pc = "assemble" /\ strictSizeMode(base)) =>
        /\ Len(split) = Len(PreSegs)
        /\ \A i \in 1..Len(PreSegs) :
              /\ Len(split[i].data) = Len(PreSegs[i].data)
              /\ PosBefore(i) = PrePosBefore(i)
        /\ \A i \in Replaced :
              LET eng == Lookup(lineMap, mapKey(base, PreSegs[i].lineType, PreSegs[i].lineIndex))
                  n   == Len(PreSegs[i].data)
                  m   == Len(eng)
              IN  /\ m > n => split[i].data = PreSegs[i].data
                  /\ m <= n => split[i].data = eng \o Spaces(n - m)
        /\ Count(log, StrictWarning) = Cardinality(TooLong)

C7_Witness ==
    /\ pc = "assemble"
    /\ strictSizeMode(base)
    /\ TooLong # {}
    /\ Logged(StrictWarning)
    /\ \E i \in Replaced \ TooLong :
          /\ split[i].data # PreSegs[i].data
          /\ split[i].data[Len(split[i].data)] = Ch.sp
          /\ Len(Lookup(lineMap, mapKey(base, PreSegs[i].lineType, PreSegs[i].lineIndex)))
                < Len(PreSegs[i].data)

\* The record of the table that decides the replacement of segment i: the
\* last used record with the segment's key.
Winner(i) ==
    LET k == mapKey(base, PreSegs[i].lineType, PreSegs[i].lineIndex)
        c == {j \in 1..Len(tlLines) : LineChosen(tlLines[j]) /\ tlLines[j].Key = k}
    IN  tlLines[CHOOSE j \in c : \A h \in c : h <= j]

\* The segments whose payload the substitution loop changed.
Substituted == {i \in 1..Len(PreSegs) : split[i].data # PreSegs[i].data}

\* The encoded text of a record without reflow, and with it.
PlainBytes(l) == EncodeText(PrepText(l), l.Index).bytes

WrappedBytes(l) == EncodeText(wrap(PrepText(l), wordWrapLength), l.Index).bytes

C10_Named == {"4_9_7.scn", "4_10_2.scn", "4_13_9.scn", "5_10_1.scn"}

\* The 0-based offsets of b at which 0xf2, four bytes, 0xf0 0x1a 0xf1 occur.
RouteOccurrences(b) ==
    {p \in 0..(Len(b) - 8) : b[p + 1] = 242 /\ Slice(b, p + 5, p + 8) = <<240, 26, 241>>}

\* The occurrences taken from left to right without overlap.
RouteTaken(b) ==
    LET occ == RouteOccurrences(b)
        taken[p \in 0..Len(b)] ==
            /\ p \in occ
            /\ \A q \in 0..(p - 1) : (q > p - 8) => ~taken[q]
    IN  {p \in occ : taken[p]}

\* The bytes of b that hold the four-byte value of a taken occurrence.
RouteValueBytes(b) == {p + k : p \in RouteTaken(b), k \in 2..5}

\* C10: for the four named files fixRouteChange replaces the four bytes v of
\* every non-overlapping occurrence of 0xf2 v 0xf0 0x1a 0xf1 by
\* LE32((v + delta) mod 2^32), delta being the length of the patched buffer
\* minus the length of the original file, and changes nothing else; for any
\* other file the buffer is returned as it is.
C10_RouteChange ==
    [][pc = "route" =>
          LET delta == Len(outData) - Len(orig)
          IN  /\ pc' = "dump"
              /\ Len(outData') = Len(outData)
              /\ base \notin C10_Named => outData' = outData
              /\ base \in C10_Named =>
                    /\ \A p \in RouteTaken(outData) :
                          Slice(outData', p + 1, p + 5) =
                              ModLE32(Signed(Slice(outData, p + 1, p + 5)) + delta)
                    /\ \A i \in 1..Len(outData) :
                          i \notin RouteValueBytes(outData) => outData'[i] = outData[i]]_vars

C10_Witness ==
    /\ pc = "dump"
    /\ base = "4_10_2.scn"
    /\ Len(outData) < Len(orig)
    /\ RouteTaken(outData) # {}
    /\ \A p \in RouteTaken(outData) : Slice(outData, p + 1, p + 5) = <<254, 255, 255, 255>>

(***************************************************************************)
(* SpecWrap: wrap applied to a bounded text at a bounded width.  data is   *)
(* the text and outData the wrapped text, both as code points.             *)
(***************************************************************************)
MaxWrapChunks == 5

WrapChunks ==
    { <<97>>, <<98, 98, 98>>, <<Ch.sp>>, <<Ch.nl>>, <<Ch.bs, Ch.c, 49>>,
      <<Ch.bs, Ch.V, Ch.quote, 118, Ch.quote, Ch.quote>>, <<233>> }

\* The text of the example: "aa bb cc".
WrapExample == <<97, 97, Ch.sp, 98, 98, Ch.sp, 99, 99>>

WrapInit ==
    /\ pc = "wrap"
    /\ \/ data \in Concats(WrapChunks, MaxWrapChunks) /\ wordWrapLength = 3
       \/ data = WrapExample /\ wordWrapLength = 5
    /\ outData = <<>>
    /\ remaining = <<>>
    /\ out = <<>>
    /\ indexMap = ZeroIndex
    /\ log = <<>>
    /\ base = ""
    /\ fileSizeOffset = LE32(0)
    /\ split = <<>>
    /\ orig = <<>>
    /\ tlLines = <<>>
    /\ lineMap = <<>>
    /\ written = <<>>

\* Line 449: tlWrapped := wrap(tl).
WrapApply ==
    /\ pc = "wrap"
    /\ outData' = wrap(data, wordWrapLength)
    /\ pc' = "wrapped"
    /\ UNCHANGED <<scanVars, log, base, fileSizeOffset, split, orig, patchVars>>

WrapNext == WrapApply

SpecWrap == WrapInit /\ [][WrapNext]_vars

NotEmpty(w) == w # <<>>

\* The words of a text: the non-empty runs between spaces and newlines.
Words(s) == SelectSeq(SplitOn(ReplaceAll(s, <<Ch.nl>>, <<Ch.sp>>), Ch.sp), NotEmpty)

\* Every word of the text fits the width.
WordsFit(s, width) == \A i \in 1..Len(Words(s)) : lineLength(Words(s)[i]) <= width

\* C11: when every space-separated token of the text has visible length at
\* most the width, every line of wrap(text) has visible length at most the
\* width and the words of the output are the words of the input, in order.
C11_WrapBound ==
    (pc = "wrapped" /\ WordsFit(data, wordWrapLength)) =>
        /\ \A i \in 1..Len(SplitOn(outData, Ch.nl)) :
              lineLength(SplitOn(outData, Ch.nl)[i]) <= wordWrapLength
        /\ Words(outData) = Words(data)

C11_Witness ==
    /\ pc = "wrapped"
    /\ data = WrapExample
    /\ wordWrapLength = 5
    /\ outData = <<97, 97, Ch.sp, 98, 98, Ch.nl, 99, 99>>

(***************************************************************************)
(* Further properties of the scanner, stated on the steps of SpecScan.     *)
(***************************************************************************)
\* SpecScanLive: splitFile called on a buffer made of whole segments, of a
\* marker without its terminator and of plain bytes, and run to its end.
MaxLiveChunks == 3

LiveChunks ==
    { lineStart(0) \o <<65, 0>>, choiceStart \o <<0>>, fileTagStart \o <<66, 0>>,
      lineStart(0), <<65>> }

ScanLiveInit ==
    /\ pc = "input"
    /\ data = <<>>
    /\ remaining = <<>>
    /\ out = <<>>
    /\ indexMap = ZeroIndex
    /\ log = <<>>
    /\ base = ""
    /\ fileSizeOffset = LE32(0)
    /\ split = <<>>
    /\ outData = <<>>
    /\ orig = <<>>
    /\ NoPatch

\* Lines 140-145: splitFile is called on a buffer.
ScanCall ==
    /\ pc = "input"
    /\ \E d \in Concats(LiveChunks, MaxLiveChunks) :
          /\ data' = d
          /\ SetScan(ScanStart(d))
    /\ UNCHANGED <<log, fileVars, patchVars>>

ScanLiveNext == ScanCall \/ ScanNext

\* A step of ScanNext can be taken exactly at the loop head and at the
\* self-check: each of lines 146-186 is total.
ScanEnabled == pc \in {"loop", "check"}

\* The program runs on: the call is made, and a step of the loop that can
\* be taken is taken.  FairScan is WF_vars(ScanNext) with its ENABLED
\* written as ScanEnabled.
FairScan == []<>(~ScanEnabled) \/ []<><<ScanNext>>_vars

SpecScanLive ==
    ScanLiveInit /\ [][ScanLiveNext]_vars /\ WF_vars(ScanCall) /\ FairScan

\* The step emits a structural and a semantic segment.
Emits == pc = "loop" /\ pc' = "loop"

Kinds == {TextSegment, ChoiceSegment, FileTagSegment}

\* The 0-based offsets at which mk occurs in s.
Occurrences(s, mk) == {i \in 0..Len(s) : HasAt(s, mk, i)}

\* C13: after a Text segment with index k is emitted the Text counter stays
\* at k exactly when 0xf3 LE32(k) occurs in the bytes after the segment's
\* payload, and is k + 1 otherwise; after a Choice or FileTag segment the
\* counter of that kind grows by one; the other counters do not change.
C13_ContinuationRule ==
    [][Emits =>
        LET seg     == out'[Len(out')]
            k       == seg.lineIndex
            follows == SliceFrom(data, Len(combineSegments(out')))
            again   == Occurrences(follows, <<243>> \o LE32(k)) # {}
        IN  /\ seg.lineType \in Kinds
            /\ k = indexMap[seg.lineType]
            /\ \A t \in Kinds \ {seg.lineType} : indexMap'[t] = indexMap[t]
            /\ seg.lineType = TextSegment =>
                  indexMap'[TextSegment] = IF again THEN k ELSE k + 1
            /\ seg.lineType # TextSegment =>
                  indexMap'[seg.lineType] = k + 1]_vars

C13_Witness ==
    /\ pc = "loop"
    /\ Len(out) = 2
    /\ out[2].lineType = TextSegment
    /\ out[2].lineIndex = 0
    /\ indexMap[TextSegment] = 0
    /\ Occurrences(remaining, lineStart(0)) # {}

\* The marker searched for a kind at the loop head.
MarkerOfKind(t) ==
    IF t = TextSegment THEN <<243>> \o LE32(indexMap[TextSegment])
    ELSE IF t = ChoiceSegment THEN <<240, 28, 241>>
    ELSE <<240, 26, 241>>

\* The offsets in the remainder at which one of the three markers starts,
\* the smallest of them, and the kind that has it.
AllMarkers == UNION {Occurrences(remaining, MarkerOfKind(t)) : t \in Kinds}

FirstMarker == CHOOSE i \in AllMarkers : \A j \in AllMarkers : i <= j

FirstKind ==
    IF FirstMarker \in Occurrences(remaining, MarkerOfKind(TextSegment)) THEN TextSegment
    ELSE IF FirstMarker \in Occurrences(remaining, MarkerOfKind(ChoiceSegment))
    THEN ChoiceSegment
    ELSE FileTagSegment

\* C14: the segment emitted is of the kind whose marker starts first in the
\* remainder (Text before Choice before FileTag at equal offsets), the
\* structural segment runs up to the end of that marker, and no marker of
\* the three starts in it before the trailing one; the loop ends only when
\* none of the three markers occurs.
C14_EarliestMarkerWins ==
    /\ [][Emits =>
            /\ AllMarkers # {}
            /\ out'[Len(out')].lineType = FirstKind
            /\ out'[Len(out') - 1] =
                  ScnSegment(Structural, 0,
                             Slice(remaining, 0, FirstMarker + Len(MarkerOfKind(FirstKind))))
            /\ \A i \in AllMarkers :
                  i + Len(MarkerOfKind(FirstKind)) >= Len(out'[Len(out') - 1].data)]_vars
    /\ [][(pc = "loop" /\ pc' = "check") => AllMarkers = {}]_vars

C14_Witness ==
    /\ pc = "loop"
    /\ Len(out) = 2
    /\ out[2].lineType = ChoiceSegment
    /\ Occurrences(data, lineStart(0)) # {}
    /\ Occurrences(data, fileTagStart) # {}
    /\ \A i \in Occurrences(data, lineStart(0)) \cup Occurrences(data, fileTagStart) :
          i >= Len(out[1].data)

\* The marker that opens a semantic segment.
MarkerOf(seg) ==
    IF seg.lineType = TextSegment THEN <<243>> \o LE32(seg.lineIndex)
    ELSE IF seg.lineType = ChoiceSegment THEN <<240, 28, 241>>
    ELSE <<240, 26, 241>>

\* s ends with suf.
EndsWith(s, suf) ==
    Len(suf) <= Len(s) /\ SubSeq(s, Len(s) - Len(suf) + 1, Len(s)) = suf

\* C17: a returned list has odd length; its 1st, 3rd, ... segments are
\* structural and its 2nd, 4th, ... semantic; a structural segment other
\* than the last ends with the marker of the segment after it; a semantic
\* payload holds no 0x00; a structural segment after the first begins with
\* 0x00.
C17_Structure ==
    pc = "returned" =>
        /\ Len(out) % 2 = 1
        /\ \A i \in 1..Len(out) :
              /\ (i % 2 = 1) <=> (out[i].lineType = Structural)
              /\ (i % 2 = 0) <=> (out[i].lineType \in Kinds)
              /\ (i % 2 = 1 /\ i < Len(out)) => EndsWith(out[i].data, MarkerOf(out[i + 1]))
              /\ (i % 2 = 0) => \A j \in 1..Len(out[i].data) : out[i].data[j] # 0
              /\ (i % 2 = 1 /\ i > 1) => (out[i].data # <<>> /\ out[i].data[1] = 0)

C17_Witness ==
    /\ pc = "returned"
    /\ Len(out) = 5
    /\ out[2].lineType = FileTagSegment
    /\ out[4].lineType = ChoiceSegment
    /\ out[5].data = <<0>>

\* C18: the loop of splitFile stops; it stops by the final structural
\* segment, emitted when no marker is left, or by the fatal error of a
\* missing terminator; every other iteration shortens the remainder by at
\* least three bytes.
C18_ScanTerminates ==
    /\ (pc = "loop") ~> (pc # "loop")
    /\ [][Emits => Len(remaining') + 3 <= Len(remaining)]_vars
    /\ [][(pc = "loop" /\ ~Emits) =>
            \/ /\ pc' = "check"
               /\ NextMarker(remaining, indexMap).begin = -1
               /\ out' = Append(out, ScnSegment(Structural, 0, remaining))
            \/ /\ pc' = "fatal"
               /\ log' = Append(log, NoEnd)]_vars

C18_Witness ==
    /\ pc = "check"
    /\ Len(out) = 5
    /\ Len(remaining) + 6 <= Len(data)
    /\ out[5].data = remaining

(***************************************************************************)
(* Further properties of the header patcher, on SpecHeader.                *)
(***************************************************************************)
\* size_offset > 12 and size_offset - 12 is not a multiple of 36.
OffsetNotAligned ==
    /\ Signed(fileSizeOffset) > TableStart
    /\ (Signed(fileSizeOffset) - TableStart) % RecordSize # 0

\* C15: when size_offset > 12 and size_offset - 12 is not a multiple of 36,
\* fixFileSizeHeader ends with a warning logged or with an error, never with
\* the table patched for the truncated quotient and nothing said.
C15_NonMultipleFlagged ==
    (pc \in {"headerDone", "panic"} /\ OffsetNotAligned) =>
        (Logged(HeaderWarning) \/ pc = "panic")

(***************************************************************************)
(* The offset table in the output of the pipeline.                         *)
(***************************************************************************)
\* The header step is done and the run has not stopped.
AfterHeader == pc \in {"route", "dump", "write", "done"}

\* Every FileTag payload of the assembled body starts at or after
\* size_offset + 3.
TagsInBody == \A i \in FileTagAt : PosBefore(i) >= Signed(fileSizeOffset) + 3

\* The value stored in record r of the buffer b.
StoredValue(b, r) == Signed(Slice(b, RecordAt(r), RecordAt(r) + 4))

\* Record r of b points at the r-th FileTag of the assembled body.
PointsAtFileTag(b, r) ==
    /\ HasAt(b, fileTagStart, Signed(fileSizeOffset) + StoredValue(b, r))
    /\ Signed(fileSizeOffset) + StoredValue(b, r) + Len(fileTagStart) =
          PosBefore(NthFileTag(r))

\* C16: from the header step on, for a file with size_offset > 12, a
\* matching FileTag count and every FileTag payload at or after
\* size_offset + 3, each record r of the output holds a value v with the
\* FileTag marker at size_offset + v and the r-th FileTag payload at
\* size_offset + v + 3; this is so before and after the route-change fix.
C16_RecordsPointAtFileTags ==
    (AfterHeader /\ TableMatches /\ TagsInBody) =>
        \A r \in 0..(Cardinality(FileTagAt) - 1) : PointsAtFileTag(outData, r)

(***************************************************************************)
(* extract: the table written from an English file and an original file.   *)
(***************************************************************************)

\* jisDecoder.Bytes, the inverse of JisChar on the model's alphabet; a byte
\* that starts no character of it is decoded as U+FFFD.
RECURSIVE JisDecode(_)
JisDecode(b) ==
    IF b = <<>> THEN <<>>
    ELSE IF b[1] < 128 THEN <<b[1]>> \o JisDecode(Tail(b))
    ELSE IF Len(b) >= 2 /\ b[1] = 129 /\ b[2] \in {117, 118, 121, 122}
    THEN << IF b[2] = 117 THEN Ch.lcorner
            ELSE IF b[2] = 118 THEN Ch.rcorner
            ELSE IF b[2] = 121 THEN Ch.llent
            ELSE Ch.rlent >> \o JisDecode(SliceFrom(b, 2))
    ELSE <<65533>> \o JisDecode(Tail(b))

\* Lines 77-84.
parseJIS(b) == JisDecode(b)

IsSpace(ch) == ch \in {9, 10, 11, 12, 13, 32}

RECURSIVE TrimLeft(_)
TrimLeft(s) == IF s # <<>> /\ IsSpace(s[1]) THEN TrimLeft(Tail(s)) ELSE s

RECURSIVE TrimRight(_)
TrimRight(s) ==
    IF s # <<>> /\ IsSpace(s[Len(s)]) THEN TrimRight(SubSeq(s, 1, Len(s) - 1)) ELSE s

\* strings.TrimSpace.
TrimSpace(s) == TrimRight(TrimLeft(s))

\* Line 266: the text between the texts of two segments with one key.
MergeMark == <<Ch.nl, Ch.tilde, Ch.tilde, Ch.tilde, Ch.tilde, Ch.nl>>

\* Lines 257-268: the texts of the English file by key.
RECURSIVE ExtractMap(_, _, _)
ExtractMap(segs, file, m) ==
    IF segs = <<>> THEN m
    ELSE IF segs[1].lineType = Structural THEN ExtractMap(Tail(segs), file, m)
    ELSE LET k == mapKey(file, segs[1].lineType, segs[1].lineIndex)
             v == IF k \in DOMAIN m
                  THEN m[k] \o MergeMark \o parseJIS(segs[1].data)
                  ELSE parseJIS(segs[1].data)
         IN  ExtractMap(Tail(segs), file, MapPut(m, k, v))

\* Lines 278-296: one record per semantic segment of the original file.
RECURSIVE ExtractLines(_, _, _)
ExtractLines(segs, file, m) ==
    IF segs = <<>> THEN <<>>
    ELSE IF segs[1].lineType = Structural THEN ExtractLines(Tail(segs), file, m)
    ELSE LET k        == mapKey(file, segs[1].lineType, segs[1].lineIndex)
             original == removePPNewLines(parseJIS(segs[1].data))
             tlltext  == TrimSpace(removePPNewLines(Lookup(m, k)))
         IN  << TLLine(k, segs[1].lineIndex,
                       IF tlltext # <<>> /\ tlltext # original THEN tlltext ELSE <<>>,
                       <<>>) >>
             \o ExtractLines(Tail(segs), file, m)

(***************************************************************************)
(* SpecMerge: extract run on an English file whose last two Text segments  *)
(* share an index and on an original file with one Text segment of that    *)
(* index, then patch run on the table written.  data is the English file,  *)
(* out its segments; the table is handed over as written (the CSV file     *)
(* returns the records it was given).                                      *)
(***************************************************************************)
MaxMergeIndex == 1

MergeTexts ==
    { <<>>, <<97>>, <<98, Ch.sp, 99>>, <<Ch.llent>>,
      <<Ch.sp, 100>>, <<97, 98, Ch.sp, 99, 100>> }

MergeWidths == {3, 4}

\* Text segments 0 .. k-1, each with the payload p.
RECURSIVE TextsBefore(_, _)
TextsBefore(k, p) ==
    IF k = 0 THEN <<>>
    ELSE TextsBefore(k - 1, p) \o lineStart(k - 1) \o p \o <<0>>

\* The English file: the Text line k is split in two.
EngFile(k, a, b) ==
    FileOf(TableStart, TextsBefore(k, <<122>>)
                       \o lineStart(k) \o JisBytes(a) \o <<0>>
                       \o lineStart(k) \o JisBytes(b) \o <<0>>)

\* The original file: the Text line k is one segment.
OrigFile(k) ==
    FileOf(TableStart, TextsBefore(k, <<111>>) \o lineStart(k) \o <<106, 112>> \o <<0>>)

MergeInit ==
    /\ pc = "extract"
    /\ base \in {"1_1_1.scn", "2_6_6.scn"}
    /\ wordWrapLength \in MergeWidths
    /\ \E k \in 0..MaxMergeIndex, a \in MergeTexts, b \in MergeTexts :
          /\ data = EngFile(k, a, b)
          /\ orig = OrigFile(k)
    /\ tlLines = <<>>
    /\ lineMap = <<>>
    /\ written = <<>>
    /\ fileSizeOffset = LE32(0)
    /\ split = <<>>
    /\ outData = <<>>
    /\ remaining = <<>>
    /\ out = <<>>
    /\ indexMap = ZeroIndex
    /\ log = <<>>

\* Lines 246-298 on the two scans: err is the message of log.Fatal, segs the
\* segments of the English file, lines the records written.
ExtractResult(eng, jp, file) ==
    IF eng.err # "" THEN [err |-> eng.err, segs |-> <<>>, lines |-> <<>>]
    ELSE IF jp.err # "" THEN [err |-> jp.err, segs |-> <<>>, lines |-> <<>>]
    ELSE [err   |-> "",
          segs  |-> eng.segs,
          lines |-> ExtractLines(jp.segs, file, ExtractMap(eng.segs, file, <<>>))]

\* Lines 246-298.
extract(engData, origData, file) ==
    ExtractResult(splitFile(engData), splitFile(origData), file)

SetExtract(r) ==
    IF r.err # ""
    THEN pc' = "fatal" /\ log' = Append(log, r.err) /\ UNCHANGED <<out, tlLines>>
    ELSE pc' = "start" /\ log' = log /\ out' = r.segs /\ tlLines' = r.lines

\* Lines 246-298: the English file and the original file are scanned and
\* the table is written.
MergeExtract ==
    /\ pc = "extract"
    /\ SetExtract(extract(data, orig, base))
    /\ UNCHANGED <<data, remaining, indexMap, fileVars, lineMap, wordWrapLength, written>>

MergeNext ==
    \/ MergeExtract
    \/ BuildLineMap
    \/ ReadFile
    \/ SplitFile
    \/ Substitute
    \/ Assemble
    \/ RouteChange
    \/ DumpSegments
    \/ WriteFile

SpecMerge == MergeInit /\ [][MergeNext]_vars

\* The index of the split line: that of the last segment of the English file.
MergeK == out[Len(out) - 1].lineIndex

IsMergeText(seg) == seg.lineType = TextSegment /\ seg.lineIndex = MergeK

\* The Text segments with the index of the split line.
MergeSegs(segs) == SelectSeq(segs, IsMergeText)

\* The payloads A and B of the English file.
EngA == MergeSegs(out)[1].data

EngB == MergeSegs(out)[2].data

\* A text without newline, without backslash and without a space at either
\* end, within the width.
PlainText(t) ==
    /\ \A i \in 1..Len(t) : t[i] \notin {Ch.nl, Ch.bs}
    /\ t # <<>> => (t[1] # Ch.sp /\ t[Len(t)] # Ch.sp)
    /\ lineLength(t) <= wordWrapLength

\* The table is built and the run has not stopped.
AfterBuild == pc \in {"read", "split", "subst", "assemble", "route", "dump", "write", "done"}

\* extract joined two payloads, both plain.
MergePre ==
    /\ AfterBuild
    /\ Len(MergeSegs(out)) = 2
    /\ PlainText(parseJIS(EngA))
    /\ PlainText(parseJIS(EngB))

\* The entry of the table is A, 0x00, lineStart(k), B.
MergeEncoded ==
    Lookup(lineMap, mapKey(base, TextSegment, MergeK)) =
        EngA \o <<0>> \o lineStart(MergeK) \o EngB

\* The output holds exactly two Text segments with index k, with one
\* structural segment between them and with the payloads A and B.
MergeRescanned ==
    LET r == splitFile(outData).segs
    IN  /\ Len(MergeSegs(r)) = 2
        /\ MergeSegs(r)[1].data = EngA
        /\ MergeSegs(r)[2].data = EngB
        /\ \E i \in 1..(Len(r) - 2) : IsMergeText(r[i]) /\ IsMergeText(r[i + 2])

NoNameBrackets(t) == \A i \in 1..Len(t) : t[i] \notin {Ch.llent, Ch.rlent}

====
